---- MODULE Spec2Model ----
(***************************************************************************)
(* Verification model of the seeknimblyAI streaming routes:                *)
(*   POST /api/hr/stream               (app/api/hr/stream/route.ts)        *)
(*   POST /api/agent/stream            (recruiting agent, new turn)        *)
(*   POST /api/agent/stream/continue   (recruiting agent, resume)          *)
(*   POST /api/chat                    (routing-only suggestion)           *)
(* together with the tool dispatcher (lib/agent-tools.ts), the             *)
(* continuation codec used by the resume route, the rate limiter           *)
(* (lib/rateLimit.ts) and the two routers (lib/agentRouter.ts,             *)
(* lib/chatRouter.ts).                                                     *)
(*                                                                         *)
(* Texts are sequences of one-character strings over Chars; the JSON       *)
(* `null` content of an assistant message is the distinguished value Null. *)
(* Tool-call argument texts are abstracted to three classes: "obj" (the    *)
(* text of a JSON object), "null" (the JSON text null, which JSON.parse    *)
(* turns into the value null) and "bad" (text that JSON.parse rejects).    *)
(***************************************************************************)
EXTENDS Integers, Sequences, FiniteSets, TLC

(* ------------------------------ bounds --------------------------------- *)
\* requests handled in one behaviour
MaxRequests == 3
\* tool-call ids the generation capability hands out in the "varied" profile
MaxIds == 4
\* upstream events of one streaming responses.create call
MaxUpstream == 3
\* requests of one behaviour of the limiter
MaxWindowRequests == 22
\* windows the clock runs through in one behaviour of the limiter
MaxTicks == 2
\* largest max_results, in absolute value, handed to search_candidates
MaxResultsArg == 25
\* handlers of one route family running at the same time
MaxHandlers == 3
\* events of one response stream read by the chat client
MaxStreamLen == 3

(* ------------------------- program constants --------------------------- *)
maxToolRounds == 10
\* 10 * 60 * 1000
WINDOW_MS == 600000
MAX_REQUESTS == 20
\* z.string().max(8000) and z.array(...).max(20) of the body schemas
MAX_MESSAGE == 8000
MAX_HISTORY == 20

AGENT_TOOLS ==
  {"search_candidates", "screen_resume", "send_outreach",
   "schedule_interview", "update_ats", "get_sourcing_workflow"}

TOOLS_REQUIRING_APPROVAL ==
  {"send_outreach", "schedule_interview", "update_ats"}

toolRequiresApproval(name) ==
  name \in TOOLS_REQUIRING_APPROVAL

(* ------------------------------ values --------------------------------- *)
Null == <<"NULL">>
NoId == ""
EmptyText == <<>>

\* JSON.parse(tc.function.arguments ?? "{}") inside try/catch: a parse
\* failure gives {}, the text null gives the value null.
ParseArgs(a) ==
  IF a = "bad" THEN "obj" ELSE a

\* executeTool reads a property of args in every registered case, so a null
\* args value raises TypeError; the default case does not touch args.
ExecThrows(name, args) ==
  name \in AGENT_TOOLS /\ args = "null"

ToolResult(name) ==
  IF name \in AGENT_TOOLS
    THEN <<"result", name>>
    ELSE <<"error", "Unknown tool: ", name>>

DeclineNotice == <<"message", "User declined to run this tool.">>

ToolCall(id, name, arguments) ==
  [id |-> id, name |-> name, arguments |-> arguments]

Msg(role, content) ==
  [role |-> role, content |-> content, tc_present |-> FALSE,
   tool_calls |-> <<>>, tool_call_id |-> NoId]

AssistantCalls(content, calls) ==
  [role |-> "assistant", content |-> content, tc_present |-> TRUE,
   tool_calls |-> calls, tool_call_id |-> NoId]

ToolMsgUnlinked(id, content) ==
  [role |-> "tool", content |-> content, tc_present |-> FALSE,
   tool_calls |-> <<>>, tool_call_id |-> NoId]

ToolMsg(id, content) ==
  [role |-> "tool", content |-> content, tc_present |-> FALSE,
   tool_calls |-> <<>>, tool_call_id |-> id]

(* ------------------------- continuation codec -------------------------- *)
\* One element of serializableMessages (continue route): an assistant message
\* with a truthy tool_calls keeps its content as is; a tool message keeps
\* tool_call_id and content; every other message gets content ?? "".
SerializeMsg(m) ==
  IF m.role = "assistant" /\ m.tc_present
    THEN AssistantCalls(m.content, m.tool_calls)
    ELSE IF m.role = "tool"
      THEN ToolMsg(m.tool_call_id, m.content)
      ELSE Msg(m.role, IF m.content = Null THEN EmptyText ELSE m.content)

\* JSON.stringify({messages, params}) encoded as base64 and decoded again is
\* lossless on these values, so a well-formed token is the structure itself.
Serialize(msgs, params) ==
  [kind |-> "ok",
   messages |-> [i \in 1..Len(msgs) |-> SerializeMsg(msgs[i])],
   params |-> params]

\* One element of parseSerializedMessages.
ParseMsg(r) ==
  IF r.role \in {"system", "user"}
    THEN Msg(r.role, IF r.content = Null THEN EmptyText ELSE r.content)
    ELSE IF r.role = "assistant"
      THEN IF r.tc_present /\ Len(r.tool_calls) > 0
             THEN AssistantCalls(r.content, r.tool_calls)
             ELSE Msg("assistant", IF r.content = Null THEN EmptyText ELSE r.content)
      ELSE IF r.role = "tool"
        THEN ToolMsg(r.tool_call_id, r.content)
        ELSE Msg("user", IF r.content = Null THEN EmptyText ELSE r.content)

parseSerializedMessages(raw) ==
  [i \in 1..Len(raw) |-> ParseMsg(raw[i])]

\* Outcome of lines 232-244 of the resume route for a continuation string:
\* "400" when Buffer.from/JSON.parse throws inside the try, "crash" when the
\* decoded value is null (payload.params) or has no messages list
\* (raw.map), both outside any try, "ok" otherwise.
DecodeOutcome(tok) ==
  CASE tok.kind \in {"garbage", "notjson"} -> "400"
    [] tok.kind \in {"null", "noMessages"} -> "crash"
    [] OTHER -> "ok"

\* `lastMsg?.role !== "assistant" || !("tool_calls" in lastMsg) ||
\* !lastMsg.tool_calls?.length`, negated
HasPendingToolCalls(msgs) ==
  /\ Len(msgs) > 0
  /\ msgs[Len(msgs)].role = "assistant"
  /\ msgs[Len(msgs)].tc_present
  /\ Len(msgs[Len(msgs)].tool_calls) > 0

(* --------------------------- stream events ----------------------------- *)
StepEv(id, status) == [type |-> "step", id |-> id, status |-> status]
TextEv(delta) == [type |-> "text", delta |-> delta]
DoneEv(text) == [type |-> "done", text |-> text]
ErrorEv(error) == [type |-> "error", error |-> error]
PendingEv(calls, continuation) ==
  [type |-> "pending_tool_calls", calls |-> calls, continuation |-> continuation]

IsSpace(c) == c \in {" ", "\n"}

RECURSIVE TrimStart(_)
TrimStart(t) ==
  IF Len(t) > 0 /\ IsSpace(t[1]) THEN TrimStart(Tail(t)) ELSE t

RECURSIVE TrimEnd(_)
TrimEnd(t) ==
  IF Len(t) > 0 /\ IsSpace(t[Len(t)]) THEN TrimEnd(SubSeq(t, 1, Len(t) - 1)) ELSE t

Trim(t) == TrimEnd(TrimStart(t))

DonePlaceholder == <<"Done.">>

\* sendDone / sendError of the two recruiting routes: the pair (events,
\* sentFinal) after the call.
sendDoneTrimOnly(evs, sf, text) ==
  IF sf
    THEN [events |-> evs, sentFinal |-> sf]
    ELSE [events |-> Append(evs, DoneEv(Trim(text))), sentFinal |-> TRUE]

sendDone(evs, sf, text) ==
  IF sf
    THEN [events |-> evs, sentFinal |-> sf]
    ELSE [events |-> Append(evs, DoneEv(IF Trim(text) = EmptyText THEN DonePlaceholder ELSE Trim(text))),
          sentFinal |-> TRUE]

sendErrorNoFlag(evs, sf, error) ==
  [events |-> Append(evs, ErrorEv(error)), sentFinal |-> FALSE]

sendError(evs, sf, error) ==
  IF sf
    THEN [events |-> evs, sentFinal |-> sf]
    ELSE [events |-> Append(evs, ErrorEv(error)), sentFinal |-> TRUE]

\* typeof msg.content === "string" ? msg.content : ""
LastContentOf(content) ==
  IF content = Null THEN EmptyText ELSE content

(* ---------------------------- rate limiter ----------------------------- *)
\* lib/rateLimit.ts. The store is a function from the keys present in the
\* Map to their entries; times are milliseconds.
EmptyStore == [k \in {} |-> [count |-> 0, resetAt |-> 0]]

Put(st, key, entry) ==
  [k \in DOMAIN st \cup {key} |-> IF k = key THEN entry ELSE st[k]]

Without(st, key) == [k \in DOMAIN st \ {key} |-> st[k]]

rateLimitKey(ip, r) == "hr:" \o r \o ":" \o ip

\* check(key) at time t: the answer and the store after the call
checkInclusive(st, key, t) ==
  IF key \notin DOMAIN st
    THEN [allowed |-> TRUE, store |-> st]
    ELSE IF t > st[key].resetAt
      THEN [allowed |-> TRUE, store |-> Without(st, key)]
      ELSE [allowed |-> st[key].count <= MAX_REQUESTS, store |-> st]

check(st, key, t) ==
  IF key \notin DOMAIN st
    THEN [allowed |-> TRUE, store |-> st]
    ELSE IF t > st[key].resetAt
      THEN [allowed |-> TRUE, store |-> Without(st, key)]
      ELSE [allowed |-> st[key].count < MAX_REQUESTS, store |-> st]

\* record(key) at time t: the store after the call
record(st, key, t) ==
  IF key \notin DOMAIN st \/ t > st[key].resetAt
    THEN Put(st, key, [count |-> 1, resetAt |-> t + WINDOW_MS])
    ELSE Put(st, key, [count |-> st[key].count + 1, resetAt |-> st[key].resetAt])

\* the limiter key of each rate-limited route
ClientIp == "unknown"

KeyOf(r) ==
  IF r = "hr" THEN rateLimitKey(ClientIp, "hr") ELSE rateLimitKey(ClientIp, "agent")

RateLimitedRoutes == {"hr", "agent", "continue"}

(* --------------------------- request bodies ---------------------------- *)
\* A request body is abstracted to what the schemas look at: whether it is
\* JSON at all, which fields it has, the length of the message and of the
\* continuation strings and the number of history items.
BodyOf(isJson, fields, messageLen, historyLen, continuationLen) ==
  [json |-> isJson, has |-> fields, message |-> messageLen, history |-> historyLen,
   continuation |-> continuationLen]

NoBody == BodyOf(FALSE, {}, 0, 0, 0)

\* z.string().min(1).max(8000)
MessageFieldNoMax(b) ==
  "message" \in b.has /\ b.message >= 1

MessageField(b) ==
  "message" \in b.has /\ b.message >= 1 /\ b.message <= MAX_MESSAGE

\* z.array(HISTORY_ITEM).max(20).optional()
HistoryField(b) == "history" \in b.has => b.history <= MAX_HISTORY

HrBodySchema(b) == MessageField(b) /\ "jurisdiction" \in b.has /\ HistoryField(b)

AgentBodySchema(b) == MessageField(b) /\ HistoryField(b)

ChatBodySchema(b) == MessageField(b)

ContinueBodySchema(b) ==
  /\ "continuation" \in b.has
  /\ b.continuation >= 1
  /\ "approved_tool_call_ids" \in b.has

\* `await req.json()` then `BODY_SCHEMA.parse(raw)` does not throw
BodyValid(r, b) ==
  /\ b.json
  /\ CASE r = "hr" -> HrBodySchema(b)
       [] r = "agent" -> AgentBodySchema(b)
       [] r = "chat" -> ChatBodySchema(b)
       [] OTHER -> ContinueBodySchema(b)

(* ------------------------------ strings -------------------------------- *)
\* Messages of the two routers are strings; these are the String methods
\* the routers use.
UpperCase ==
  <<"A", "B", "C", "D", "E", "F", "G", "H", "I", "J", "K", "L", "M",
    "N", "O", "P", "Q", "R", "S", "T", "U", "V", "W", "X", "Y", "Z">>

LowerCase ==
  <<"a", "b", "c", "d", "e", "f", "g", "h", "i", "j", "k", "l", "m",
    "n", "o", "p", "q", "r", "s", "t", "u", "v", "w", "x", "y", "z">>

LowerChar(c) ==
  IF \E i \in DOMAIN UpperCase : UpperCase[i] = c
    THEN LowerCase[CHOOSE i \in DOMAIN UpperCase : UpperCase[i] = c]
    ELSE c

RECURSIVE toLowerCase(_)
toLowerCase(s) ==
  IF Len(s) = 0 THEN "" ELSE LowerChar(SubSeq(s, 1, 1)) \o toLowerCase(SubSeq(s, 2, Len(s)))

WhiteSpace == {" ", "\n", "\t"}

RECURSIVE trimStart(_)
trimStart(s) ==
  IF Len(s) > 0 /\ SubSeq(s, 1, 1) \in WhiteSpace THEN trimStart(SubSeq(s, 2, Len(s))) ELSE s

RECURSIVE trimEnd(_)
trimEnd(s) ==
  IF Len(s) > 0 /\ SubSeq(s, Len(s), Len(s)) \in WhiteSpace
    THEN trimEnd(SubSeq(s, 1, Len(s) - 1))
    ELSE s

trim(s) == trimEnd(trimStart(s))

includes(s, p) ==
  \E i \in 1..(Len(s) - Len(p) + 1) : SubSeq(s, i, i + Len(p) - 1) = p

\* phrases.some((p) => lower.includes(p))
some(phrases, lower) == \E p \in phrases : includes(lower, p)

(* ---------------------------- chat router ------------------------------ *)
RECRUITING_PHRASES ==
  {"hire", "recruit", "candidates", "job opening", "job posting", "find engineers",
   "talent", "position", "headcount", "staffing", "backfill", "role", "applicants",
   "sourcing", "kubeflow", "mlflow", "backend engineer", "frontend", "toronto",
   "vancouver"}

ONBOARDING_PHRASES ==
  {"first day", "first week", "new hire", "onboarding", "who do i contact",
   "who to contact", "it access", "equipment", "laptop", "benefits enrollment",
   "direct deposit", "tax forms", "i-9", "handbook", "orientation"}

LEARNING_DEVELOPMENT_PHRASES ==
  {"training", "learning", "development", "l&d", "l and d", "career development",
   "skills", "course", "certification", "upskill", "reskill",
   "professional development", "leadership development", "coaching", "mentoring",
   "workshop", "webinar", "learning path", "competency"}

RouteSuggestion(agent, reason) == [suggestedAgent |-> agent, reason |-> reason]

suggestRecruitingFirst(message) ==
  LET lower == trim(toLowerCase(message))
  IN  IF lower = ""
        THEN RouteSuggestion("compliance", "No message; defaulting to Compliance.")
        ELSE IF some(RECRUITING_PHRASES, lower)
          THEN RouteSuggestion("recruiting",
                 "Your message seems to be about hiring, recruiting, or finding candidates.")
          ELSE RouteSuggestion("compliance",
                 "Your message is best handled by the Compliance agent (policies, regulations, audits).")

suggestChatAgent(message) ==
  LET lower == trim(toLowerCase(message))
      hasRecruiting == some(RECRUITING_PHRASES, lower)
      hasOnboarding == some(ONBOARDING_PHRASES, lower)
      hasLearningDevelopment == some(LEARNING_DEVELOPMENT_PHRASES, lower)
  IN  IF lower = ""
        THEN RouteSuggestion("compliance", "No message; defaulting to Compliance.")
      ELSE IF hasRecruiting /\ ~hasOnboarding
        THEN RouteSuggestion("recruiting",
               "Your message seems to be about hiring, recruiting, or finding candidates.")
      ELSE IF hasOnboarding /\ ~hasRecruiting
        THEN RouteSuggestion("onboarding",
               "Your message seems to be about new hire onboarding, first day, or who to contact.")
      ELSE IF hasRecruiting /\ hasOnboarding
        THEN RouteSuggestion("onboarding",
               "Your message touches both recruiting and onboarding; suggesting Onboarding for new-hire focus.")
      ELSE IF hasLearningDevelopment
        THEN RouteSuggestion("learning_development",
               "Your message seems to be about learning, training, or career development.")
      ELSE RouteSuggestion("compliance",
             "Your message is best handled by the Compliance agent (policies, regulations, audits).")

(* ---------------------------- agent router ----------------------------- *)
COMPLIANCE_KEYWORDS ==
  {"compliance check", "audit", "soc2", "iso", "iso9001", "controls", "gap analysis",
   "policy review", "handbook", "employee handbook", "hr compliance", "legal",
   "risk register"}

POLICY_DOC_PHRASES ==
  {"handbook say", "document say", "policy say", "what does our",
   "what does the handbook", "what does the doc", "what does the policy",
   "what does the document"}

RISK_CONTROLS_PHRASES ==
  {"map to iso", "map to iso 9001", "soc2 controls", "iso 9001 controls",
   "controls mapping", "map this process to"}

AgentIds ==
  {"general_hr_assistant", "compliance_agent", "policy_doc_agent", "risk_controls_agent"}

matchAnyCaseSensitive(text, phrases) == some(phrases, text)

matchAny(text, phrases) == some(phrases, toLowerCase(text))

\* the `null` of heuristics
NoAgent == "null"

heuristicsAnyDocument(message, hasDocument) ==
  LET lower == toLowerCase(message)
  IN  IF ~some(COMPLIANCE_KEYWORDS, lower) THEN NoAgent
      ELSE IF matchAny(message, POLICY_DOC_PHRASES) THEN "policy_doc_agent"
      ELSE IF matchAny(message, RISK_CONTROLS_PHRASES) THEN "risk_controls_agent"
      ELSE "compliance_agent"

heuristics(message, hasDocument) ==
  LET lower == toLowerCase(message)
  IN  IF ~hasDocument THEN "general_hr_assistant"
      ELSE IF ~some(COMPLIANCE_KEYWORDS, lower) THEN NoAgent
      ELSE IF matchAny(message, POLICY_DOC_PHRASES) THEN "policy_doc_agent"
      ELSE IF matchAny(message, RISK_CONTROLS_PHRASES) THEN "risk_controls_agent"
      ELSE "compliance_agent"

\* What the fallback router's model call can come to: no API key, a request
\* that throws, an empty reply, a reply that is not JSON, or a JSON reply
\* naming some agent.
LlmOutcomes ==
  {"no-api-key", "throws", "empty-response", "not-json", "unknown_agent"} \cup AgentIds

llmRouterUnchecked(outcome) ==
  IF outcome = "no-api-key" THEN [agent |-> "general_hr_assistant", reason |-> "no-api-key"]
  ELSE IF outcome = "empty-response"
    THEN [agent |-> "general_hr_assistant", reason |-> "empty-response"]
  ELSE IF outcome \in {"throws", "not-json"}
    THEN [agent |-> "general_hr_assistant", reason |-> "fallback"]
  ELSE [agent |-> outcome, reason |-> "llm"]

llmRouter(outcome) ==
  IF outcome = "no-api-key" THEN [agent |-> "general_hr_assistant", reason |-> "no-api-key"]
  ELSE IF outcome = "empty-response"
    THEN [agent |-> "general_hr_assistant", reason |-> "empty-response"]
  ELSE IF outcome \in AgentIds THEN [agent |-> outcome, reason |-> "llm"]
  ELSE [agent |-> "general_hr_assistant", reason |-> "fallback"]

\* Array.prototype.slice(start) of a sequence: a negative start counts from
\* the end
slice(seq, start) ==
  LET from == IF start < 0
                THEN (IF Len(seq) + start > 0 THEN Len(seq) + start ELSE 0)
                ELSE (IF start < Len(seq) THEN start ELSE Len(seq))
  IN  SubSeq(seq, from + 1, Len(seq))

\* chooseAgent: the result, whether llmRouter was called and the history
\* it was handed
chooseAgent(message, history, hasDocument, outcome) ==
  LET heuristic == heuristics(message, hasDocument)
  IN  IF heuristic # NoAgent
        THEN [agent |-> heuristic, reason |-> "", llmRouterCalled |-> FALSE, history |-> <<>>]
        ELSE [agent |-> llmRouter(outcome).agent, reason |-> llmRouter(outcome).reason,
              llmRouterCalled |-> TRUE, history |-> slice(history, -10)]

(* ------------------------------- state --------------------------------- *)
VARIABLES
  genProfile,      \* which outcomes the generation capability may produce
  reqNo,           \* number of requests received so far
  nextId,          \* next tool-call id the generation capability hands out
  executed,        \* log of executeTool calls that returned
  issued,          \* continuation tokens emitted in pending_tool_calls events
  submitted,       \* continuation submitted by each request (NoToken if none)
  route,           \* route of the current request
  pc,              \* position of the current request's handler
  http,            \* kind of HTTP response of the current request
  messages,        \* the handler's transcript
  events,          \* stream events enqueued so far, in order
  sentFinal,       \* the handler's sentFinal flag
  streamState,     \* "none", "open", "closed", "closeThrew"
  approvedSet,     \* approved_tool_call_ids of a resume request
  resumeCalls,     \* lastMsg.tool_calls of a resume request
  params,          \* turn parameters
  batch,           \* msg.tool_calls of the latest generation response
  idx,             \* index of the next call in the loop being run
  approvalCalls,   \* approvalCalls of the resume route's tool batch
  lastContent,     \* lastContent of the recruiting routes
  round,           \* round counter of the new-turn recruiting route
  genCalls,        \* generation calls made by the current request
  accumulatedText, \* accumulatedText of the hr stream route
  upstreamN,       \* upstream events consumed by the hr stream route
  fallbackText,    \* fallbackText of the hr stream route (Null while undefined)
  codec,           \* a transcript taken through the continuation codec
  genFailed,       \* a generation call of the current request threw or reported failure
  classified,      \* chooseAgent was called by the current request
  body,            \* body of the current request
  store,           \* the rate limiter's Map
  now,             \* Date.now()
  admitted,        \* log of record(key) calls: key and time
  chat,            \* a message taken through suggestChatAgent
  routing,         \* a message taken through chooseAgent
  search,          \* a max_results argument taken through search_candidates
  handlers,        \* position of each of the handlers running at the same time
  client           \* the chat client's stream consumer

auxVars == <<codec, body, store, now, admitted, chat, routing, search, handlers, client>>
histVars == <<genProfile, auxVars, nextId, executed, issued, submitted>>
streamVars == <<events, sentFinal, streamState>>
resumeVars == <<approvedSet, resumeCalls, params>>
loopVars == <<batch, idx, approvalCalls, lastContent, round>>
hrVars == <<accumulatedText, upstreamN, fallbackText>>

vars ==
  <<genProfile, reqNo, nextId, executed, issued, submitted, route, pc, http,
    messages, events, sentFinal, streamState, approvedSet, resumeCalls,
    params, batch, idx, approvalCalls, lastContent, round, genCalls,
    accumulatedText, upstreamN, fallbackText, codec, genFailed, classified, body, store, now,
    admitted, chat, routing, search, handlers, client>>

\* The server keeps nothing between requests except what the client sends
\* back, so a behaviour is one of three families: "single" is one request of
\* any route with every outcome of the collaborators; "rounds" is one
\* new-turn request whose generation calls keep proposing one tool call;
\* "chain" is a sequence of resume requests that may reuse issued tokens.
\* "quota" is a sequence of requests that end with their HTTP response, sent
\* by a client that has used up all of one limiter window but one request.
Profiles == {"single", "rounds", "chain", "quota"}

NoToken == [kind |-> "none", messages |-> <<>>, params |-> "{}"]

CodecIdle ==
  [stage |-> "idle", original |-> <<>>, params |-> "{}", token |-> NoToken, decoded |-> <<>>]

ChatIdle == [stage |-> "idle", message |-> "", result |-> RouteSuggestion("", "")]

RoutingIdle ==
  [stage |-> "idle", message |-> "", history |-> <<>>, hasDocument |-> FALSE,
   outcome |-> "no-api-key",
   result |-> [agent |-> NoAgent, reason |-> "", llmRouterCalled |-> FALSE, history |-> <<>>]]

InitRequest ==
  /\ reqNo = 0
  /\ nextId = 1
  /\ executed = <<>>
  /\ issued = {}
  /\ submitted = <<>>
  /\ route = "none"
  /\ pc = "idle"
  /\ http = "none"
  /\ messages = <<>>
  /\ events = <<>>
  /\ sentFinal = FALSE
  /\ streamState = "none"
  /\ approvedSet = {}
  /\ resumeCalls = <<>>
  /\ params = "{}"
  /\ batch = <<>>
  /\ idx = 1
  /\ approvalCalls = <<>>
  /\ lastContent = EmptyText
  /\ round = 0
  /\ genCalls = 0
  /\ accumulatedText = EmptyText
  /\ fallbackText = Null
  /\ upstreamN = 0
  /\ genFailed = FALSE
  /\ classified = FALSE
  /\ body = NoBody
  /\ now = 0
  /\ search = [called |-> FALSE, max_results |-> [type |-> "undefined", halves |-> 0],
               candidates |-> <<>>, total |-> 0]
  /\ handlers = [h \in 1..MaxHandlers |-> "idle"]
  /\ client = [stage |-> "reading", seen |-> <<>>, steps |-> <<>>, fullText |-> EmptyText,
               gotDone |-> FALSE, gotPendingToolCalls |-> FALSE, content |-> Null]

\* the limiter after the hr key was recorded MAX_REQUESTS times and the agent
\* key once less, all at time 0
QuotaStore ==
  Put(Put(EmptyStore, KeyOf("hr"), [count |-> MAX_REQUESTS, resetAt |-> WINDOW_MS]),
      KeyOf("agent"), [count |-> MAX_REQUESTS - 1, resetAt |-> WINDOW_MS])

QuotaLog ==
  [i \in 1..MAX_REQUESTS |-> [key |-> KeyOf("hr"), at |-> 0]]
  \o [i \in 1..(MAX_REQUESTS - 1) |-> [key |-> KeyOf("agent"), at |-> 0]]

Init ==
  /\ genProfile \in Profiles
  /\ codec = CodecIdle
  /\ store = IF genProfile = "quota" THEN QuotaStore ELSE EmptyStore
  /\ admitted = IF genProfile = "quota" THEN QuotaLog ELSE <<>>
  /\ chat = ChatIdle
  /\ routing = RoutingIdle
  /\ InitRequest

(* ------------------------------ inputs --------------------------------- *)
SystemMsg == Msg("system", <<"s">>)
UserMsg == Msg("user", <<"u">>)
Base == <<SystemMsg, UserMsg>>

TokenOf(msgs) == [kind |-> "ok", messages |-> msgs, params |-> "{}"]

\* ids a client can put into a token it builds itself
ClientIdA == "client_a"
ClientIdB == "client_b"

\* continuation strings that do not decode to a resumable transcript
MalformedTokens ==
  {[kind |-> k, messages |-> <<>>, params |-> "{}"] :
      k \in {"garbage", "notjson", "null", "noMessages"}}
  \cup {TokenOf(<<>>), TokenOf(Base),
        TokenOf(Base \o <<AssistantCalls(Null, <<>>)>>),
        TokenOf(Base \o <<AssistantCalls(Null, <<ToolCall(ClientIdA, "search_candidates", "obj"),
                                                ToolCall(ClientIdB, "send_outreach", "obj")>>),
                         ToolMsg(ClientIdA, ToolResult("search_candidates"))>>)}

\* well-formed continuations built by a client
ClientTokens ==
  {TokenOf(Base \o <<AssistantCalls(Null, <<ToolCall(ClientIdA, "send_outreach", "obj")>>)>>),
   TokenOf(Base \o <<AssistantCalls(<<"a">>, <<ToolCall(ClientIdA, "send_outreach", "bad"),
                                             ToolCall(ClientIdB, "update_ats", "obj")>>)>>),
   TokenOf(Base \o <<AssistantCalls(Null, <<ToolCall(ClientIdA, "schedule_interview", "null")>>)>>),
   TokenOf(Base \o <<AssistantCalls(Null, <<ToolCall(ClientIdA, "search_candidates", "obj"),
                                           ToolCall(ClientIdB, "send_outreach", "obj")>>)>>)}

\* a token the server issued, with the tool messages after its last
\* assistant message removed by the client
RECURSIVE StripTrailingTools(_)
StripTrailingTools(msgs) ==
  IF Len(msgs) > 0 /\ msgs[Len(msgs)].role = "tool"
    THEN StripTrailingTools(SubSeq(msgs, 1, Len(msgs) - 1))
    ELSE msgs

StrippedTokens ==
  {[t EXCEPT !.messages = StripTrailingTools(t.messages)] : t \in issued}

ChainTokens ==
  {TokenOf(Base \o <<AssistantCalls(Null, <<ToolCall(ClientIdA, "send_outreach", "obj")>>)>>)}

Continuations ==
  IF genProfile = "chain"
    THEN ChainTokens \cup issued \cup StrippedTokens
    ELSE MalformedTokens \cup ClientTokens

CallIds(calls) == {calls[i].id : i \in 1..Len(calls)}

LastCallIds(tok) ==
  IF tok.kind = "ok" /\ Len(tok.messages) > 0
    THEN CallIds(tok.messages[Len(tok.messages)].tool_calls)
    ELSE {}

\* tool calls the generation capability proposes, before ids are assigned
CallKinds ==
  {[name |-> "search_candidates", arguments |-> "obj"],
   [name |-> "search_candidates", arguments |-> "null"],
   [name |-> "send_outreach", arguments |-> "obj"],
   [name |-> "update_ats", arguments |-> "null"],
   [name |-> "unknown_tool", arguments |-> "obj"]}

ChainKinds ==
  {[name |-> "search_candidates", arguments |-> "obj"],
   [name |-> "send_outreach", arguments |-> "obj"]}

RoundsShape == <<[name |-> "search_candidates", arguments |-> "obj"]>>

ShapesOver(kinds) ==
  {<<k>> : k \in kinds} \cup {<<k1, k2>> : k1 \in kinds, k2 \in kinds}

GenShapes ==
  IF genProfile = "rounds"
    THEN {RoundsShape}
    ELSE {s \in ShapesOver(IF genProfile = "chain" THEN ChainKinds ELSE CallKinds) :
            nextId + Len(s) - 1 <= MaxIds}

\* ids the generation capability assigns are unique
GenId(n) == "call_" \o ToString(n)

WithIds(shape) ==
  [i \in 1..Len(shape) |-> ToolCall(GenId(nextId + i - 1), shape[i].name, shape[i].arguments)]

\* outcomes of one chat.completions.create call
GenOutcomes ==
  {[kind |-> "throw", content |-> Null, shape |-> <<>>],
   [kind |-> "nomessage", content |-> Null, shape |-> <<>>]}
  \cup {[kind |-> "text", content |-> c, shape |-> <<>>] :
          c \in IF genProfile = "single" THEN {Null, EmptyText, <<" ">>, <<"a", " ">>}
                ELSE {<<"a", " ">>}}
  \cup {[kind |-> "tools", content |-> c, shape |-> s] :
          c \in IF genProfile = "single" THEN {Null, <<"a">>} ELSE {Null},
          s \in GenShapes}

Histories == {<<>>, <<Msg("user", <<"u">>), Msg("assistant", <<"a">>)>>}

\* the decode failure every request of the "window" profile submits
WindowToken == [kind |-> "notjson", messages |-> <<>>, params |-> "{}"]

\* bodies: the field sets, string lengths and item counts around the limits
\* of the schemas
MessageLens == {0, 1, MAX_MESSAGE, MAX_MESSAGE + 1}

HistoryLens == {0, MAX_HISTORY, MAX_HISTORY + 1}

TurnBodies ==
  {BodyOf(TRUE, f, m, h, 0) :
     f \in SUBSET {"message", "history", "jurisdiction"}, m \in MessageLens, h \in HistoryLens}

ResumeBodies ==
  {BodyOf(TRUE, f, 0, 0, c) :
     f \in SUBSET {"continuation", "approved_tool_call_ids"}, c \in {0, 1}}

\* a field that is absent has no length
WellFormedBody(b) ==
  /\ "message" \notin b.has => b.message = 0
  /\ "history" \notin b.has => b.history = 0
  /\ "continuation" \notin b.has => b.continuation = 0

Bodies(r) ==
  {NoBody} \cup {b \in (IF r = "continue" THEN ResumeBodies ELSE TurnBodies) : WellFormedBody(b)}

\* the bodies of the requests that go on to stream
ResumeBody == BodyOf(TRUE, {"continuation", "approved_tool_call_ids"}, 0, 0, 1)

TurnBody(history) ==
  BodyOf(TRUE, IF history = <<>> THEN {"message"} ELSE {"message", "history"},
         Len(UserMsg.content), Len(history), 0)

HrBody == BodyOf(TRUE, {"message", "jurisdiction"}, Len(UserMsg.content), 0, 0)

\* messages sent to the chat router
ChatMessages ==
  {a \o " " \o b :
     a, b \in {"", "Hire", "new hire", "TRAINING", "overtime", "Onboarding", "workshop",
               "candidates"}}
  \cup
  {"", " ", " \n\t ", "I need to hire 5 backend engineers in Toronto",
   "We have a job opening for frontend", "sourcing candidates in vancouver",
   "What should I do on my first day? Who do I contact for IT access?",
   "New hire orientation and handbook", "benefits enrollment and direct deposit",
   "What are the overtime rules in Ontario?",
   "We need to hire someone and get them through new hire onboarding",
   "  FIRST DAY  ", "hire engineers",
   "What training do you recommend for leadership development?",
   "I want to upskill and get a certification", "career development and mentoring",
   "Training for our new hire", "Recruit a coach for the workshop",
   "Onboarding course for the open position", "LAPTOP", "Role", "webinar",
   "L&D budget", "audit", "x", "We are hiring", "whiteboarding",
   "Where is my I-9 and the tax forms?", "competency matrix for staffing",
   "Skills\n"}

\* messages sent to the agent router
RouterMessages ==
  {"", "Hello", "What does the handbook say about vacation?",
   "Please run a compliance check", "Map to ISO 9001 controls",
   "AUDIT: soc2 controls mapping", "What does our policy say", "Is this legal?",
   "What does the document say about the audit", "gap analysis", "overtime rules",
   "map this process to our risk register", "What Does The Handbook Say?",
   "does the handbook say soc2 controls apply?", "map this process to payroll"}

\* histories of 0 to MAX_HISTORY items, each item standing for its position
RouterHistories == {[i \in 1..n |-> i] : n \in {0, 1, 10, 11, MAX_HISTORY}}

\* one entry of the execution log: the call, the request and loop that ran
\* it, and that request's approved_tool_call_ids
Exec(id, name, via) ==
  [id |-> id, name |-> name, req |-> reqNo, route |-> route, via |-> via,
   approvedIds |-> approvedSet]

(* --------------------------- request start ----------------------------- *)
CanStart ==
  \/ pc = "idle"
  \/ pc = "done" /\ genProfile \in {"chain", "quota"} /\ reqNo < MaxRequests
  \/ pc = "done" /\ genProfile = "window" /\ reqNo < MaxWindowRequests

RoutesOf(profile) ==
  CASE profile \in {"chain", "window"} -> {"continue"}
    [] profile = "rounds" -> {"agent"}
    [] profile = "quota" -> {"hr", "continue"}
    [] OTHER -> {"hr", "agent", "continue", "chat"}

\* the tokens a profile submits: the requests of "quota" and "window" end at
\* the decode step
TokensOf(profile) ==
  CASE profile = "quota" -> MalformedTokens
    [] profile = "window" -> {WindowToken}
    [] OTHER -> Continuations

\* the per-request variables at the first await of a handler
StartWith(r, b, recorded, tok, h, nextpc, msgs, evs, st, appr, rcalls, p) ==
  /\ body' = b
  /\ store' = IF r \notin RateLimitedRoutes THEN store
              ELSE IF recorded THEN record(check(store, KeyOf(r), now).store, KeyOf(r), now)
              ELSE check(store, KeyOf(r), now).store
  /\ admitted' = IF recorded THEN Append(admitted, [key |-> KeyOf(r), at |-> now]) ELSE admitted
  /\ reqNo' = reqNo + 1
  /\ submitted' = Append(submitted, tok)
  /\ route' = r
  /\ http' = h
  /\ pc' = nextpc
  /\ messages' = msgs
  /\ events' = evs
  /\ sentFinal' = FALSE
  /\ streamState' = st
  /\ approvedSet' = appr
  /\ resumeCalls' = rcalls
  /\ params' = p
  /\ batch' = <<>>
  /\ idx' = 1
  /\ approvalCalls' = <<>>
  /\ lastContent' = EmptyText
  /\ round' = 0
  /\ genCalls' = 0
  /\ accumulatedText' = EmptyText
  /\ fallbackText' = Null
  /\ upstreamN' = 0
  /\ genFailed' = FALSE
  /\ classified' = FALSE
  /\ chat' = ChatIdle
  /\ UNCHANGED <<genProfile, codec, now, routing, search, handlers, client, nextId, executed,
                 issued>>

\* `if (!check(key))` of the three rate-limited routes
Admits(r) == r \notin RateLimitedRoutes \/ check(store, KeyOf(r), now).allowed

\* check(key) is false: 429 before the body is read
RateLimited(r) ==
  /\ CanStart
  /\ r \in RoutesOf(genProfile)
  /\ ~Admits(r)
  /\ \E b \in Bodies(r) : StartWith(r, b, FALSE, NoToken, "429", "done", <<>>, <<>>, "none", {}, <<>>, "{}")

\* BODY_SCHEMA.parse / req.json() throws: 400
RejectBody(r) ==
  /\ CanStart
  /\ r \in RoutesOf(genProfile)
  /\ Admits(r)
  /\ \E b \in Bodies(r) :
       /\ ~BodyValid(r, b)
       /\ StartWith(r, b, FALSE, NoToken, "400", "done", <<>>, <<>>, "none", {}, <<>>, "{}")

\* getOpenAIApiKey() returns null: 500
NoApiKey(r) ==
  /\ CanStart
  /\ r \in RoutesOf(genProfile) \cap RateLimitedRoutes
  /\ Admits(r)
  /\ \E b \in Bodies(r) :
       /\ BodyValid(r, b)
       /\ StartWith(r, b, FALSE, NoToken, "500", "done", <<>>, <<>>, "none", {}, <<>>, "{}")

(* ---------------- POST /api/agent/stream/continue ---------------------- *)
\* decode, parseSerializedMessages and the last-message check
ContinueStart(tok, appr) ==
  /\ CanStart
  /\ "continue" \in RoutesOf(genProfile)
  /\ tok \in TokensOf(genProfile)
  /\ Admits("continue")
  /\ BodyValid("continue", ResumeBody)
  /\ LET d == DecodeOutcome(tok)
         msgs == IF d = "ok" THEN parseSerializedMessages(tok.messages) ELSE <<>>
         b == ResumeBody
     IN  IF d # "ok"
           THEN StartWith("continue", b, TRUE, tok, d, "done", <<>>, <<>>, "none", appr, <<>>, "{}")
           ELSE IF ~HasPendingToolCalls(msgs)
             THEN StartWith("continue", b, TRUE, tok, "400", "done", msgs, <<>>, "none", appr, <<>>, tok.params)
             ELSE StartWith("continue", b, TRUE, tok, "none", "resume_loop", msgs, <<>>, "none", appr,
                            msgs[Len(msgs)].tool_calls, tok.params)

\* `if (!toolRequiresApproval(name)) continue;`
ResumeNeverSkips(name) == FALSE

ResumeSkips(name) == ~toolRequiresApproval(name)

\* one iteration of `for (const tc of lastMsg.tool_calls)`; after the last
\* one the stream is constructed and its start() runs up to the generation
\* call
ResumeStep ==
  /\ pc = "resume_loop"
  /\ idx <= Len(resumeCalls)
  /\ LET tc == resumeCalls[idx]
         args == ParseArgs(tc.arguments)
         run == ~ResumeSkips(tc.name) /\ tc.id \in approvedSet
         thrown == run /\ ExecThrows(tc.name, args)
         last == idx = Len(resumeCalls)
     IN  /\ executed' = IF run /\ ~thrown
                          THEN Append(executed, Exec(tc.id, tc.name, "resume"))
                          ELSE executed
         /\ messages' = IF ResumeSkips(tc.name) \/ thrown
                          THEN messages
                          ELSE IF run
                            THEN Append(messages, ToolMsg(tc.id, ToolResult(tc.name)))
                            ELSE Append(messages, ToolMsg(tc.id, DeclineNotice))
         /\ idx' = IF thrown THEN idx ELSE IF last THEN 1 ELSE idx + 1
         /\ pc' = IF thrown THEN "done" ELSE IF last THEN "c_gen" ELSE "resume_loop"
         /\ http' = IF thrown THEN "crash" ELSE IF last THEN "stream" ELSE http
         /\ streamState' = IF ~thrown /\ last THEN "open" ELSE streamState
  /\ UNCHANGED <<genProfile, auxVars, reqNo, nextId, issued, submitted, route, events, sentFinal,
                 resumeVars, batch, approvalCalls, lastContent, round, genCalls, genFailed, classified, hrVars>>

\* the generation call of the resumed turn and what follows it up to the
\* tool batch
ContinueGenerate(out) ==
  /\ pc = "c_gen"
  /\ genCalls' = genCalls + 1
  /\ genFailed' = (genFailed \/ out.kind = "throw")
  /\ UNCHANGED classified
  /\ CASE out.kind = "throw" ->
            \* catch: the error line is enqueued directly; finally closes
            /\ events' = Append(events, ErrorEv("Request failed"))
            /\ sentFinal' = sentFinal
            /\ streamState' = "closed"
            /\ pc' = "done"
            /\ UNCHANGED <<messages, batch, lastContent, nextId>>
       [] out.kind = "nomessage" ->
            \* sendError; ctrl.close(); return; finally closes again
            /\ LET se == sendError(events, sentFinal, "No message in response.")
               IN  events' = se.events /\ sentFinal' = se.sentFinal
            /\ streamState' = "closeThrew"
            /\ pc' = "done"
            /\ UNCHANGED <<messages, batch, lastContent, nextId>>
       [] out.kind = "text" ->
            /\ LET sd == sendDone(events, sentFinal, LastContentOf(out.content))
               IN  events' = sd.events /\ sentFinal' = sd.sentFinal
            /\ lastContent' = LastContentOf(out.content)
            /\ streamState' = "closed"
            /\ pc' = "done"
            /\ UNCHANGED <<messages, batch, nextId>>
       [] out.kind = "tools" ->
            /\ messages' = Append(messages, AssistantCalls(out.content, WithIds(out.shape)))
            /\ batch' = WithIds(out.shape)
            /\ nextId' = nextId + Len(out.shape)
            /\ lastContent' = LastContentOf(out.content)
            /\ pc' = "c_batch"
            /\ UNCHANGED <<events, sentFinal, streamState>>
  /\ idx' = 1
  /\ approvalCalls' = <<>>
  /\ UNCHANGED <<genProfile, auxVars, reqNo, executed, issued, submitted, route, http,
                 resumeVars, round, hrVars>>

\* `if (toolRequiresApproval(name))` of the tool batch
BatchDefersNothing(name) == FALSE

BatchDefers(name) == toolRequiresApproval(name)

\* one iteration of `for (const tc of autoCalls)`; after the last one the
\* approvalCalls check, the serialization and the terminal event
ContinueToolStep ==
  /\ pc = "c_batch"
  /\ idx <= Len(batch)
  /\ LET tc == batch[idx]
         args == ParseArgs(tc.arguments)
         gated == BatchDefers(tc.name)
         thrown == ~gated /\ ExecThrows(tc.name, args)
         last == idx = Len(batch)
         calls1 == IF gated
                     THEN Append(approvalCalls, [id |-> tc.id, name |-> tc.name, args |-> args])
                     ELSE approvalCalls
         msgs1 == IF gated \/ thrown
                    THEN messages
                    ELSE Append(messages, ToolMsg(tc.id, ToolResult(tc.name)))
         evs1 == IF gated
                   THEN events
                   ELSE IF thrown
                     THEN events \o <<StepEv(tc.name, "active"), ErrorEv("Request failed")>>
                     ELSE events \o <<StepEv(tc.name, "active"), StepEv(tc.name, "done")>>
         token == Serialize(msgs1, params)
         pause == last /\ ~thrown /\ Len(calls1) > 0
         sd == sendDone(evs1, sentFinal, lastContent)
     IN  /\ executed' = IF gated \/ thrown
                          THEN executed
                          ELSE Append(executed, Exec(tc.id, tc.name, "batch"))
         /\ messages' = msgs1
         /\ approvalCalls' = calls1
         /\ events' = IF pause THEN Append(evs1, PendingEv(calls1, token))
                      ELSE IF last /\ ~thrown THEN sd.events ELSE evs1
         /\ sentFinal' = IF pause THEN TRUE
                         ELSE IF last /\ ~thrown THEN sd.sentFinal ELSE sentFinal
         /\ issued' = IF pause THEN issued \cup {token} ELSE issued
         /\ streamState' = IF thrown THEN "closed"
                           ELSE IF last THEN "closeThrew" ELSE streamState
         /\ pc' = IF thrown \/ last THEN "done" ELSE "c_batch"
         /\ idx' = IF thrown THEN idx ELSE idx + 1
  /\ UNCHANGED <<genProfile, auxVars, reqNo, nextId, submitted, route, http, resumeVars,
                 batch, lastContent, round, genCalls, genFailed, classified, hrVars>>

(* --------------------- POST /api/agent/stream -------------------------- *)
\* validation passed: transcript built, stream constructed, "agent" step sent
AgentStart(history) ==
  /\ CanStart
  /\ "agent" \in RoutesOf(genProfile)
  /\ Admits("agent")
  /\ BodyValid("agent", TurnBody(history))
  /\ StartWith("agent", TurnBody(history), TRUE, NoToken, "stream", "a_gen",
               <<SystemMsg>> \o history \o <<UserMsg>>,
               <<StepEv("agent", "active")>>, "open", {}, <<>>, "{}")

\* `while (round < maxToolRounds)`
RoundsLeftInclusive(r) == r <= maxToolRounds

RoundsLeft(r) == r < maxToolRounds

\* one chat.completions.create call of the while loop and what follows it
\* up to the tool loop
AgentGenerate(out) ==
  /\ pc = "a_gen"
  /\ RoundsLeft(round)
  /\ genCalls' = genCalls + 1
  /\ genFailed' = (genFailed \/ out.kind = "throw")
  /\ UNCHANGED classified
  /\ CASE out.kind = "throw" ->
            /\ LET se == sendError(events, sentFinal, "Request failed")
               IN  events' = se.events /\ sentFinal' = se.sentFinal
            /\ streamState' = "closed"
            /\ pc' = "done"
            /\ UNCHANGED <<messages, batch, lastContent, nextId>>
       [] out.kind = "nomessage" ->
            \* sendError; break; if (!sentFinal) sendDone(lastContent)
            /\ LET se == sendError(events, sentFinal, "No message in response.")
                   sd == IF se.sentFinal THEN se ELSE sendDone(se.events, se.sentFinal, lastContent)
               IN  events' = sd.events /\ sentFinal' = sd.sentFinal
            /\ streamState' = "closed"
            /\ pc' = "done"
            /\ UNCHANGED <<messages, batch, lastContent, nextId>>
       [] out.kind = "text" ->
            /\ LET sd == sendDone(events, sentFinal, LastContentOf(out.content))
               IN  events' = sd.events /\ sentFinal' = sd.sentFinal
            /\ lastContent' = LastContentOf(out.content)
            /\ streamState' = "closed"
            /\ pc' = "done"
            /\ UNCHANGED <<messages, batch, nextId>>
       [] out.kind = "tools" ->
            /\ messages' = Append(messages, AssistantCalls(out.content, WithIds(out.shape)))
            /\ batch' = WithIds(out.shape)
            /\ nextId' = nextId + Len(out.shape)
            /\ lastContent' = LastContentOf(out.content)
            /\ pc' = "a_batch"
            /\ UNCHANGED <<events, sentFinal, streamState>>
  /\ idx' = 1
  /\ UNCHANGED <<genProfile, auxVars, reqNo, executed, issued, submitted, route, http,
                 resumeVars, approvalCalls, round, hrVars>>

\* one iteration of `for (const tc of msg.tool_calls)`; after the last one
\* round++ and the loop condition, and after the loop the final sendDone
AgentToolStep ==
  /\ pc = "a_batch"
  /\ idx <= Len(batch)
  /\ LET tc == batch[idx]
         args == ParseArgs(tc.arguments)
         thrown == ExecThrows(tc.name, args)
         last == idx = Len(batch)
         active == Append(events, StepEv(tc.name, "active"))
         se == sendError(active, sentFinal, "Request failed")
         evs1 == Append(active, StepEv(tc.name, "done"))
         exit == last /\ ~RoundsLeft(round + 1)
         sd == IF sentFinal
                 THEN [events |-> evs1, sentFinal |-> sentFinal]
                 ELSE sendDone(evs1, sentFinal, lastContent)
     IN  /\ executed' = IF thrown THEN executed
                        ELSE Append(executed, Exec(tc.id, tc.name, "batch"))
         /\ messages' = IF thrown THEN messages
                        ELSE Append(messages, ToolMsg(tc.id, ToolResult(tc.name)))
         /\ events' = IF thrown THEN se.events ELSE IF exit THEN sd.events ELSE evs1
         /\ sentFinal' = IF thrown THEN se.sentFinal ELSE IF exit THEN sd.sentFinal ELSE sentFinal
         /\ round' = IF ~thrown /\ last THEN round + 1 ELSE round
         /\ streamState' = IF thrown \/ exit THEN "closed" ELSE streamState
         /\ pc' = IF thrown \/ exit THEN "done" ELSE IF last THEN "a_gen" ELSE "a_batch"
         /\ idx' = IF thrown THEN idx ELSE idx + 1
  /\ UNCHANGED <<genProfile, auxVars, reqNo, nextId, issued, submitted, route, http, resumeVars,
                 batch, approvalCalls, lastContent, genCalls, genFailed, classified, hrVars>>

(* ----------------------- POST /api/hr/stream --------------------------- *)
DISCLAIMER == <<"D">>
NoTextReceived == <<"No text received from OpenAI stream.">>
NoResponse == <<"No response.">>

EndsWith(t, suffix) ==
  /\ Len(t) >= Len(suffix)
  /\ SubSeq(t, Len(t) - Len(suffix) + 1, Len(t)) = suffix

\* sendDone of the hr stream route
hrSendDone(evs, sf, text) ==
  IF sf
    THEN [events |-> evs, sentFinal |-> sf]
    ELSE [events |-> Append(evs, DoneEv(
            IF Trim(text) # EmptyText
              THEN IF EndsWith(text, DISCLAIMER)
                     THEN Trim(text)
                     ELSE Trim(text) \o <<"\n", "\n">> \o DISCLAIMER
              ELSE NoTextReceived \o <<"\n", "\n">> \o DISCLAIMER)),
          sentFinal |-> TRUE]

\* `finally { if (!sentFinal) sendDone(accumulatedText); controller.close(); }`
hrFinally(r, acc) ==
  IF r.sentFinal THEN r ELSE hrSendDone(r.events, r.sentFinal, acc)

UpstreamEvents ==
  {[type |-> t, text |-> Null] :
      t \in {"web_search.searching", "web_search.in_progress", "web_search.completed",
             "response.done", "response.failed", "other", "throw"}}
  \cup {[type |-> "output_text.delta", text |-> d] : d \in {Null, <<"a">>, <<" ">>}}
  \cup {[type |-> "output_text.done", text |-> d] : d \in {Null, <<"a">>}}
  \cup {[type |-> "response.completed", text |-> d] : d \in {Null, <<" ">>, <<" ", "a">>}}

\* validation passed: stream constructed, "router" step sent, agent chosen
HrStart ==
  /\ CanStart
  /\ "hr" \in RoutesOf(genProfile)
  /\ Admits("hr")
  /\ BodyValid("hr", HrBody)
  /\ StartWith("hr", HrBody, TRUE, NoToken, "stream", "hr_open", <<>>,
               <<StepEv("router", "active")>>, "open", {}, <<>>, "{}")

\* the prompt is chosen (chooseAgent unless body.mode is "onboarding"), then
\* `await openai.responses.create({ ..., stream: true })`
HrOpen(ok, isOnboarding) ==
  /\ pc = "hr_open"
  /\ genCalls' = genCalls + 1
  /\ genFailed' = (genFailed \/ ~ok)
  /\ classified' = ~isOnboarding
  /\ IF ok
       THEN /\ pc' = "hr_events"
            /\ UNCHANGED streamVars
       ELSE /\ LET r == hrFinally(sendError(events, sentFinal, "Request failed"), accumulatedText)
               IN  events' = r.events /\ sentFinal' = r.sentFinal
            /\ streamState' = "closed"
            /\ pc' = "done"
  /\ UNCHANGED <<histVars, reqNo, route, http, messages, resumeVars, loopVars, hrVars>>

\* one iteration of `for await (const event of responseStream)`
HrUpstream(ev) ==
  /\ pc = "hr_events"
  /\ upstreamN < MaxUpstream
  /\ upstreamN' = upstreamN + 1
  /\ LET failed == ev.type \in {"response.failed", "throw"}
         fin == hrFinally(sendError(events, sentFinal,
                                    IF ev.type = "throw" THEN "Request failed"
                                    ELSE "Model request failed."),
                          accumulatedText)
     IN  /\ events' =
               CASE failed -> fin.events
                 [] ev.type \in {"web_search.searching", "web_search.in_progress"} ->
                      Append(events, StepEv("web_search", "active"))
                 [] ev.type = "web_search.completed" ->
                      Append(events, StepEv("web_search", "done"))
                 [] ev.type = "output_text.delta" /\ ev.text # Null ->
                      Append(events, TextEv(ev.text))
                 [] OTHER -> events
         /\ accumulatedText' =
               CASE ev.type \in {"output_text.delta", "output_text.done"} /\ ev.text # Null ->
                      accumulatedText \o ev.text
                 [] ev.type = "response.completed" /\ ev.text # Null /\ Trim(ev.text) # EmptyText ->
                      Trim(ev.text)
                 [] OTHER -> accumulatedText
         /\ sentFinal' = IF failed THEN fin.sentFinal ELSE sentFinal
         /\ streamState' = IF failed THEN "closed" ELSE streamState
         /\ pc' = IF failed THEN "done" ELSE "hr_events"
         /\ genFailed' = (genFailed \/ failed)
  /\ UNCHANGED <<histVars, reqNo, route, http, messages, resumeVars, loopVars, genCalls, classified,
                 fallbackText>>

\* the upstream stream ends: trimmed text, or the "fallback" step
HrStreamEndAlwaysFallback ==
  /\ pc = "hr_events"
  /\ events' = Append(events, StepEv("fallback", "active"))
  /\ pc' = "hr_fallback"
  /\ UNCHANGED <<sentFinal, streamState>>
  /\ UNCHANGED <<histVars, reqNo, route, http, messages, resumeVars, loopVars, genCalls, genFailed, classified, hrVars>>

HrStreamEnd ==
  /\ pc = "hr_events"
  /\ IF Trim(accumulatedText) # EmptyText
       THEN /\ LET sd == hrSendDone(events, sentFinal, Trim(accumulatedText))
               IN  events' = sd.events /\ sentFinal' = sd.sentFinal
            /\ streamState' = "closed"
            /\ pc' = "done"
       ELSE /\ events' = Append(events, StepEv("fallback", "active"))
            /\ pc' = "hr_fallback"
            /\ UNCHANGED <<sentFinal, streamState>>
  /\ UNCHANGED <<histVars, reqNo, route, http, messages, resumeVars, loopVars, genCalls, genFailed, classified, hrVars>>

\* the fallback call threw (the inner catch swallows it)
Thrown == <<"THROWN">>

FallbackResults == {Thrown, Null, EmptyText, <<"a">>}

\* the non-streaming fallback call: its trimmed output_text (none when the
\* call throws or has no output_text) and the final sendDone
HrFallback(outputText) ==
  /\ pc = "hr_fallback"
  /\ genCalls' = genCalls + 1
  /\ genFailed' = (genFailed \/ outputText = Thrown)
  /\ UNCHANGED classified
  /\ fallbackText' = IF outputText \in {Thrown, Null} THEN Null ELSE Trim(outputText)
  /\ LET text == IF outputText \in {Thrown, Null} \/ Trim(outputText) = EmptyText
                   THEN Trim(accumulatedText)
                   ELSE Trim(outputText)
         sd == hrSendDone(events, sentFinal, IF text = EmptyText THEN NoResponse ELSE text)
     IN  events' = sd.events /\ sentFinal' = sd.sentFinal
  /\ streamState' = "closed"
  /\ pc' = "done"
  /\ UNCHANGED <<histVars, reqNo, route, http, messages, resumeVars, loopVars, accumulatedText,
                 upstreamN>>

(* -------------------------- POST /api/chat ----------------------------- *)
\* the body parses: suggestChatAgent(body.message) is the 200 response
ChatPost(message) ==
  /\ CanStart
  /\ "chat" \in RoutesOf(genProfile)
  /\ BodyValid("chat", BodyOf(TRUE, {"message"}, Len(message), 0, 0))
  /\ chat' = [stage |-> "done", message |-> message, result |-> suggestChatAgent(message)]
  /\ body' = BodyOf(TRUE, {"message"}, Len(message), 0, 0)
  /\ reqNo' = reqNo + 1
  /\ submitted' = Append(submitted, NoToken)
  /\ route' = "chat"
  /\ http' = "200"
  /\ pc' = "done"
  /\ messages' = <<>>
  /\ events' = <<>>
  /\ sentFinal' = FALSE
  /\ streamState' = "none"
  /\ approvedSet' = {}
  /\ resumeCalls' = <<>>
  /\ params' = "{}"
  /\ batch' = <<>>
  /\ idx' = 1
  /\ approvalCalls' = <<>>
  /\ lastContent' = EmptyText
  /\ round' = 0
  /\ genCalls' = 0
  /\ accumulatedText' = EmptyText
  /\ fallbackText' = Null
  /\ upstreamN' = 0
  /\ genFailed' = FALSE
  /\ classified' = FALSE
  /\ UNCHANGED <<genProfile, codec, store, now, admitted, routing, search, handlers, client,
                 nextId, executed, issued>>

(* --------------------------- specification ----------------------------- *)
Routes == {"hr", "agent", "continue", "chat"}

Next ==
  \/ \E r \in Routes : RateLimited(r)
  \/ \E r \in Routes : RejectBody(r)
  \/ \E r \in Routes : NoApiKey(r)
  \/ \E m \in ChatMessages : ChatPost(m)
  \/ \E tok \in Continuations : \E appr \in SUBSET LastCallIds(tok) : ContinueStart(tok, appr)
  \/ ResumeStep
  \/ \E out \in GenOutcomes : ContinueGenerate(out)
  \/ ContinueToolStep
  \/ \E h \in Histories : AgentStart(h)
  \/ \E out \in GenOutcomes : AgentGenerate(out)
  \/ AgentToolStep
  \/ HrStart
  \/ \E ok \in BOOLEAN : \E isOnboarding \in BOOLEAN : HrOpen(ok, isOnboarding)
  \/ \E ev \in UpstreamEvents : HrUpstream(ev)
  \/ HrStreamEnd
  \/ \E t \in FallbackResults : HrFallback(t)

Spec == Init /\ [][Next]_vars

\* The new-turn recruiting route alone. Every await of the handler settles
\* (the generation call returns or throws, the tools are synchronous stubs),
\* so a started handler keeps taking steps.
AgentNext ==
  \/ \E h \in Histories : AgentStart(h)
  \/ \E out \in GenOutcomes : AgentGenerate(out)
  \/ AgentToolStep

AgentTurnSpec == Init /\ [][AgentNext]_vars /\ WF_vars(AgentNext)

(* ------------------------ rate limiter windows ------------------------- *)
\* the instants the clock is moved to between two requests: the reset time
\* of an entry of the store, which is the last instant of its window, and
\* the millisecond after it
ResetInstants == {store[k].resetAt + d : k \in DOMAIN store, d \in {0, 1}}

\* Date.now() returns t from now on
Tick(t) ==
  /\ pc \in {"idle", "done"}
  /\ t > now
  /\ t <= MaxTicks * (WINDOW_MS + 1)
  /\ now' = t
  /\ UNCHANGED <<genProfile, reqNo, nextId, executed, issued, submitted, route, pc, http,
                 messages, streamVars, resumeVars, loopVars, genCalls, genFailed, classified, hrVars,
                 codec, body, store, admitted, chat, routing, search, handlers, client>>

RateInit ==
  /\ genProfile = "window"
  /\ codec = CodecIdle
  /\ chat = ChatIdle
  /\ routing = RoutingIdle
  /\ store = EmptyStore
  /\ admitted = <<>>
  /\ InitRequest

\* resume requests of one client, each ending at the decode step or at the
\* limiter
RateNext ==
  \/ RateLimited("continue")
  \/ ContinueStart(WindowToken, {})
  \/ \E t \in ResetInstants : Tick(t)

RateSpec == RateInit /\ [][RateNext]_vars

(* ------------------------- the two routers ----------------------------- *)
ChatRouterInit ==
  /\ genProfile = "single"
  /\ codec = CodecIdle
  /\ store = EmptyStore
  /\ admitted = <<>>
  /\ InitRequest
  /\ routing = RoutingIdle
  /\ chat \in {[stage |-> "input", message |-> m, result |-> RouteSuggestion("", "")] :
                  m \in ChatMessages}

requestVars ==
  <<genProfile, reqNo, nextId, executed, issued, submitted, route, pc, http,
    messages, streamVars, resumeVars, loopVars, genCalls, genFailed, classified, hrVars,
    codec, body, store, now, admitted, search, handlers, client>>

\* suggestChatAgent(message)
SuggestChatAgent ==
  /\ chat.stage = "input"
  /\ chat' = [chat EXCEPT !.stage = "done", !.result = suggestChatAgent(chat.message)]
  /\ UNCHANGED <<requestVars, routing>>

ChatRouterSpec == ChatRouterInit /\ [][SuggestChatAgent]_vars

RouterInit ==
  /\ genProfile = "single"
  /\ codec = CodecIdle
  /\ store = EmptyStore
  /\ admitted = <<>>
  /\ InitRequest
  /\ chat = ChatIdle
  /\ routing \in {[RoutingIdle EXCEPT !.stage = "input", !.message = m, !.history = h,
                                       !.hasDocument = d, !.outcome = o] :
                     m \in RouterMessages, h \in RouterHistories, d \in BOOLEAN,
                     o \in LlmOutcomes}

\* await chooseAgent({message, history, hasDocument})
ChooseAgent ==
  /\ routing.stage = "input"
  /\ routing' = [routing EXCEPT !.stage = "done",
                    !.result = chooseAgent(routing.message, routing.history, routing.hasDocument,
                                           routing.outcome)]
  /\ UNCHANGED <<requestVars, chat>>

RouterSpec == RouterInit /\ [][ChooseAgent]_vars

(* --------------------------- search_candidates ------------------------- *)
\* A JSON value is a type and, for a number, its value counted in halves
\* (5 stands for 2.5), so that a fractional max_results can be told from a
\* whole one.
\* The search_candidates case of executeTool: Number(args.max_results) is
\* NaN for undefined and for a non-numeric string, 0 for null, 1 for true;
\* `|| 5` replaces NaN and 0; Math.min caps at 20; Array.from({length: max})
\* makes ToLength(max) candidates: none for a negative max, the integer part
\* otherwise; total is max itself.
searchCandidates(max_results) ==
  LET number == IF max_results.type = "number" THEN max_results.halves
                ELSE IF max_results.type = "boolean" THEN 2 * max_results.halves
                ELSE 0
      orFive == IF number = 0 THEN 2 * 5 ELSE number
      max == IF orFive < 2 * 20 THEN orFive ELSE 2 * 20
      length == IF max < 0 THEN 0 ELSE max \div 2
  IN  [candidates |-> [i \in 1..length |-> i], total |-> max]

\* executeTool("search_candidates", {job_title, max_results})
SearchCandidates ==
  /\ \E x \in {[type |-> t, halves |-> 0] : t \in {"undefined", "null", "string"}}
              \cup {[type |-> "boolean", halves |-> b] : b \in {0, 1}}
              \cup {[type |-> "number", halves |-> n] :
                      n \in (0 - 2 * MaxResultsArg)..(2 * MaxResultsArg)} :
       search' = [called |-> TRUE, max_results |-> x,
                  candidates |-> searchCandidates(x).candidates,
                  total |-> searchCandidates(x).total]
  /\ UNCHANGED <<genProfile, reqNo, nextId, executed, issued, submitted, route, pc, http,
                 messages, streamVars, resumeVars, loopVars, genCalls, genFailed, classified,
                 hrVars, codec, body, store, now, admitted, chat, routing, handlers, client>>

SearchSpec == Init /\ [][SearchCandidates]_vars

(* ------------------ handlers running at the same time ------------------ *)
\* The handlers of the recruiting routes: check(key) runs before the await
\* of req.json(), record(key) after it, and other handlers run in between.
HandlerCheck(h) ==
  /\ handlers[h] = "idle"
  /\ LET c == check(store, KeyOf("agent"), now)
     IN  /\ store' = c.store
         /\ handlers' = [handlers EXCEPT ![h] = IF c.allowed THEN "parsing" ELSE "429"]
  /\ UNCHANGED admitted

\* req.json() settles: a body that does not parse or validate gets 400;
\* any other is recorded (the server has its API key)
HandlerResume(h, valid) ==
  /\ handlers[h] = "parsing"
  /\ handlers' = [handlers EXCEPT ![h] = IF valid THEN "recorded" ELSE "400"]
  /\ store' = IF valid THEN record(store, KeyOf("agent"), now) ELSE store
  /\ admitted' = IF valid THEN Append(admitted, [key |-> KeyOf("agent"), at |-> now])
                           ELSE admitted

ConcurrentNext ==
  /\ \E h \in 1..MaxHandlers :
       \/ HandlerCheck(h)
       \/ \E valid \in BOOLEAN : HandlerResume(h, valid)
  /\ UNCHANGED <<genProfile, reqNo, nextId, executed, issued, submitted, route, pc, http,
                 messages, streamVars, resumeVars, loopVars, genCalls, genFailed, classified,
                 hrVars, codec, body, now, chat, routing, search, client>>

ConcurrentSpec == Init /\ [][ConcurrentNext]_vars

(* ------------------------ chat client stream consumer ------------------ *)
\* One parsed line of the response stream
ClientRead(ev) ==
  /\ client.stage = "reading"
  /\ Len(client.seen) < MaxStreamLen
  /\ client' =
       LET c == [client EXCEPT !.seen = Append(@, ev)]
       IN  IF ev.type = "step"
             THEN [c EXCEPT !.steps = Append(SelectSeq(@, LAMBDA st : st.id # ev.id),
                                             [id |-> ev.id, status |-> ev.status])]
           ELSE IF ev.type = "text"
             THEN [c EXCEPT !.fullText = @ \o ev.delta]
           ELSE IF ev.type = "done"
             THEN [c EXCEPT !.gotDone = TRUE, !.content = ev.text, !.steps = <<>>]
           ELSE IF ev.type = "error"
             THEN [c EXCEPT !.content = <<"[Error] ", ev.error>>]
           ELSE [c EXCEPT !.gotPendingToolCalls = TRUE]

\* reader.read() reports done: the code after the loop
ClientEnd ==
  /\ client.stage = "reading"
  /\ client' =
       IF client.gotPendingToolCalls
         THEN [client EXCEPT !.stage = "finished", !.steps = <<>>]
         ELSE IF ~client.gotDone /\ Trim(client.fullText) # EmptyText
           THEN [client EXCEPT !.stage = "finished", !.content = Trim(client.fullText)]
           ELSE [client EXCEPT !.stage = "finished"]

ClientNext ==
  /\ \/ \E ev \in {StepEv("agent", "active"), TextEv(<<"a">>), TextEv(<<" ">>),
                     DoneEv(<<"x">>), ErrorEv("Request failed"),
                     PendingEv(<<>>, NoToken)} : ClientRead(ev)
     \/ ClientEnd
  /\ UNCHANGED <<genProfile, reqNo, nextId, executed, issued, submitted, route, pc, http,
                 messages, streamVars, resumeVars, loopVars, genCalls, genFailed, classified,
                 hrVars, codec, body, store, now, admitted, chat, routing, search, handlers>>

ClientSpec == Init /\ [][ClientNext]_vars

(* ------------------- continuation codec round trip --------------------- *)
\* longest transcript taken through the codec
MaxCodecLen == 3

CodecCalls ==
  {<<ToolCall(ClientIdA, "send_outreach", "obj")>>,
   <<ToolCall(ClientIdA, "search_candidates", "bad"), ToolCall(ClientIdB, "update_ats", "null")>>}

CodecMessages ==
  {SystemMsg, UserMsg, ToolMsg(ClientIdA, ToolResult("search_candidates"))}
  \cup {Msg("assistant", c) : c \in {Null, EmptyText, <<"a">>}}
  \cup {AssistantCalls(c, calls) : c \in {Null, <<"a">>}, calls \in CodecCalls \cup {<<>>}}

CodecTranscripts ==
  UNION {[1..n -> CodecMessages] : n \in 0..MaxCodecLen}

CodecInit ==
  /\ genProfile = "single"
  /\ store = EmptyStore
  /\ admitted = <<>>
  /\ chat = ChatIdle
  /\ routing = RoutingIdle
  /\ codec \in {[stage |-> "input", original |-> t, params |-> p, token |-> NoToken, decoded |-> <<>>] :
                   t \in CodecTranscripts, p \in {"{}", "job_title"}}
  /\ InitRequest

\* Buffer.from(JSON.stringify({messages: serializableMessages, params})).toString("base64")
CodecSerialize ==
  /\ codec.stage = "input"
  /\ codec' = [codec EXCEPT !.stage = "token", !.token = Serialize(codec.original, codec.params)]
  /\ UNCHANGED <<genProfile, reqNo, nextId, executed, issued, submitted, route, pc, http,
                 messages, streamVars, resumeVars, loopVars, genCalls, genFailed, classified, hrVars,
                 body, store, now, admitted, chat, routing, search, handlers, client>>

\* JSON.parse(Buffer.from(continuation, "base64")) and parseSerializedMessages
CodecDeserialize ==
  /\ codec.stage = "token"
  /\ DecodeOutcome(codec.token) = "ok"
  /\ codec' = [codec EXCEPT !.stage = "decoded",
                            !.decoded = parseSerializedMessages(codec.token.messages)]
  /\ UNCHANGED <<genProfile, reqNo, nextId, executed, issued, submitted, route, pc, http,
                 messages, streamVars, resumeVars, loopVars, genCalls, genFailed, classified, hrVars,
                 body, store, now, admitted, chat, routing, search, handlers, client>>

CodecNext == CodecSerialize \/ CodecDeserialize

CodecSpec == CodecInit /\ [][CodecNext]_vars

(* ------------------------------ properties ----------------------------- *)
ApprovalNames == {"send_outreach", "schedule_interview", "update_ats"}

CheckedNames == AGENT_TOOLS \cup {"", "unknown_tool", "SEND_OUTREACH"}

IsTerminal(e) == e.type \in {"done", "error", "pending_tool_calls"}

TerminalCount(evs) == Cardinality({i \in 1..Len(evs) : IsTerminal(evs[i])})

StreamEnded == pc = "done" /\ http = "stream"

IsGated(c) == c.name \in ApprovalNames

IdsOf(calls) == [i \in 1..Len(calls) |-> calls[i].id]

\* a continuation that decodes to a non-empty transcript ending with an
\* assistant message that carries at least one tool call
Resumable(tok) ==
  /\ tok.kind = "ok"
  /\ Len(tok.messages) > 0
  /\ tok.messages[Len(tok.messages)].role = "assistant"
  /\ tok.messages[Len(tok.messages)].tc_present
  /\ Len(tok.messages[Len(tok.messages)].tool_calls) > 0

ExecutedInRequest(n) == SelectSeq(executed, LAMBDA e : e.req = n)

\* C1: a send_outreach, schedule_interview or update_ats call is executed
\* only by the resume loop of a resume request whose approved_tool_call_ids
\* contains its id; the new-turn recruiting stream never executes one.
C1_GatedOnlyOnApprovedResume ==
  \A i \in 1..Len(executed) :
    executed[i].name \in ApprovalNames =>
      /\ executed[i].route = "continue"
      /\ executed[i].via = "resume"
      /\ executed[i].id \in executed[i].approvedIds

\* C2: in every streamed response at most one terminal event (done, error,
\* pending_tool_calls) is ever enqueued, nothing is enqueued after it, and
\* when the handler has finished exactly one has been enqueued.
C2_OneTerminalEvent ==
  /\ TerminalCount(events) <= 1
  /\ TerminalCount(events) = 1 => IsTerminal(events[Len(events)])
  /\ StreamEnded => TerminalCount(events) = 1

\* a resumed stream that ended after a tool execution threw inside the batch
C2_Witness ==
  /\ StreamEnded
  /\ route = "continue"
  /\ Len(events) >= 2
  /\ events[Len(events)].type = "error"
  /\ events[Len(events) - 1].type = "step"
  /\ events[Len(events) - 1].status = "active"

\* C3: every continuation emitted in a pending_tool_calls event passes the
\* resume route's decode and last-message check.
C3_IssuedTokensAccepted ==
  \A t \in issued :
    /\ DecodeOutcome(t) = "ok"
    /\ HasPendingToolCalls(parseSerializedMessages(t.messages))

\* C4: a continuation is consumed at most once: no call id is executed by the
\* resume loops of two different requests that submitted the same token.
C4_TokenConsumedOnce ==
  \A i, j \in 1..Len(executed) :
    /\ i < j
    /\ executed[i].via = "resume"
    /\ executed[j].via = "resume"
    /\ executed[i].req # executed[j].req
    /\ submitted[executed[i].req] = submitted[executed[j].req]
    => executed[i].id # executed[j].id

\* C5: once the batch of a generation response that mixes auto-execute and
\* approval-requiring calls has been dealt with, every auto-execute call of
\* it was executed, its result is in the transcript of the continuation, and
\* the last event is pending_tool_calls listing exactly the
\* approval-requiring calls in emission order.
C5_MixedBatchPauses ==
  /\ pc \in {"done", "a_gen"}
  /\ \E i \in 1..Len(batch) : IsGated(batch[i])
  /\ \E i \in 1..Len(batch) : ~IsGated(batch[i])
  => LET lastEv == events[Len(events)]
     IN  /\ lastEv.type = "pending_tool_calls"
         /\ IdsOf(lastEv.calls) = IdsOf(SelectSeq(batch, IsGated))
         /\ \A i \in 1..Len(batch) :
              ~IsGated(batch[i]) =>
                /\ \E k \in 1..Len(executed) :
                     executed[k].id = batch[i].id /\ executed[k].req = reqNo
                /\ \E k \in 1..Len(lastEv.continuation.messages) :
                     /\ lastEv.continuation.messages[k].role = "tool"
                     /\ lastEv.continuation.messages[k].tool_call_id = batch[i].id

\* C6: a resume request whose continuation is not resumable is answered 400,
\* with no tool execution and no generation call.
C6_InvalidContinuationRejected ==
  /\ pc = "done"
  /\ route = "continue"
  /\ submitted[reqNo] # NoToken
  /\ ~Resumable(submitted[reqNo])
  => /\ http = "400"
     /\ genCalls = 0
     /\ ExecutedInRequest(reqNo) = <<>>

\* the tool messages the resume loop is to append for a resumable token
ExpectedResumeMessages(tok, appr) ==
  LET gated == SelectSeq(tok.messages[Len(tok.messages)].tool_calls, IsGated)
  IN  [i \in 1..Len(gated) |->
         ToolMsg(gated[i].id,
                 IF gated[i].id \in appr THEN ToolResult(gated[i].name) ELSE DeclineNotice)]

\* C7: a finished resume request with a resumable continuation appended, in
\* call order, one tool message per approval-requiring call of the last
\* assistant message (result if approved, decline notice otherwise), executed
\* exactly the approved ones, and went on to a generation call.
C7_ResumeResolvesEveryGatedCall ==
  /\ pc = "done"
  /\ route = "continue"
  /\ submitted[reqNo] # NoToken
  /\ Resumable(submitted[reqNo])
  => LET tok == submitted[reqNo]
         n == Len(tok.messages)
         want == ExpectedResumeMessages(tok, approvedSet)
         gated == SelectSeq(tok.messages[n].tool_calls, IsGated)
         ran == SelectSeq(ExecutedInRequest(reqNo), LAMBDA e : e.via = "resume")
     IN  /\ Len(messages) >= n + Len(want)
         /\ SubSeq(messages, n + 1, n + Len(want)) = want
         /\ IdsOf(ran) = IdsOf(SelectSeq(gated, LAMBDA c : c.id \in approvedSet))
         /\ genCalls >= 1

\* C8: a call executed as an auto-execute call of a tool batch is never
\* executed again, by any later step of the same or of a later request.
C8_AutoCallsNotReExecuted ==
  \A i, j \in 1..Len(executed) :
    /\ i < j
    /\ executed[i].via = "batch"
    /\ executed[i].name \notin ApprovalNames
    => executed[j].id # executed[i].id

\* a later resume request, accepted and run to its end, whose continuation
\* and approved ids both name a call that an earlier request auto-executed
C8_Witness ==
  /\ StreamEnded
  /\ route = "continue"
  /\ \E i \in 1..Len(executed) :
       /\ executed[i].via = "batch"
       /\ executed[i].name \notin ApprovalNames
       /\ executed[i].req < reqNo
       /\ executed[i].id \in approvedSet
       /\ executed[i].id \in LastCallIds(submitted[reqNo])

\* C9: toolRequiresApproval is true exactly for send_outreach,
\* schedule_interview and update_ats, and both uses of it in the resume route
\* follow the name alone: the pending list holds only those names, the batch
\* executes only other names, whatever the arguments and the approved ids.
C9_ApprovalPartition ==
  /\ \A n \in CheckedNames : toolRequiresApproval(n) <=> n \in ApprovalNames
  /\ \A i \in 1..Len(approvalCalls) : approvalCalls[i].name \in ApprovalNames
  /\ \A i \in 1..Len(executed) :
       executed[i].route = "continue" =>
         (executed[i].via = "resume" <=> executed[i].name \in ApprovalNames)

\* a resumed turn that paused on update_ats after auto-executing a call with
\* the same batch
C9_Witness ==
  /\ StreamEnded
  /\ route = "continue"
  /\ \E i \in 1..Len(approvalCalls) : approvalCalls[i].name = "update_ats"
  /\ \E i \in 1..Len(executed) : executed[i].via = "batch" /\ executed[i].req = reqNo

SameTranscript(a, b) ==
  /\ Len(a) = Len(b)
  /\ \A i \in 1..Len(a) :
       /\ a[i].role = b[i].role
       /\ a[i].content = b[i].content
       /\ a[i].tool_call_id = b[i].tool_call_id
       /\ a[i].tool_calls = b[i].tool_calls

\* C11: a new recruiting turn makes at most maxToolRounds (10) generation
\* calls; when all of them proposed tool calls the stream ends with done;
\* and every started turn reaches the end of its handler with a terminal
\* event as its last event.
C11_BoundedRounds ==
  /\ [](route = "agent" => genCalls <= maxToolRounds /\ round <= maxToolRounds)
  /\ [](route = "agent" /\ pc = "done" /\ round = maxToolRounds
          => events[Len(events)].type = "done")
  /\ (route = "agent" /\ pc # "done")
       ~> (pc = "done" /\ TerminalCount(events) = 1 /\ IsTerminal(events[Len(events)]))

\* a turn whose ten generation calls all proposed a tool call, ended by done
C11_Witness ==
  /\ route = "agent"
  /\ pc = "done"
  /\ genCalls = maxToolRounds
  /\ round = maxToolRounds
  /\ Len(executed) = maxToolRounds
  /\ events[Len(events)].type = "done"

\* C13: when a generation call of a streamed request threw or reported
\* failure (the fallback call of hr/stream included), the request's
\* terminal event is error with a non-empty message.
C13_FailureEndsWithError ==
  StreamEnded /\ genFailed
    => /\ events[Len(events)].type = "error"
       /\ events[Len(events)].error # ""

\* C14: the text of a done event is never empty (nor only whitespace); a
\* turn without usable text carries a placeholder.
C14_DoneTextNotEmpty ==
  \A i \in 1..Len(events) :
    events[i].type = "done" => Trim(events[i].text) # EmptyText

\* the round bound was hit with empty content and done carries "Done."
C14_Witness ==
  /\ StreamEnded
  /\ route = "agent"
  /\ round = maxToolRounds
  /\ lastContent = EmptyText
  /\ events[Len(events)] = DoneEv(DonePlaceholder)

UnknownNames == CheckedNames \ AGENT_TOOLS

\* C15: for a name outside the registry executeTool does not throw and
\* returns the error payload naming it; in a turn the payload is the tool
\* message of the call, and once the batch holding the call has been run
\* (no call awaiting approval, rounds left) the handler is at its next
\* generation call.
C15_UnknownToolAbsorbed ==
  /\ \A n \in UnknownNames : \A a \in {"obj", "null"} :
       ~ExecThrows(n, a) /\ ToolResult(n) = <<"error", "Unknown tool: ", n>>
  /\ \A i \in 1..Len(executed) :
       executed[i].req = reqNo /\ executed[i].name \notin AGENT_TOOLS
         => \E k \in 1..Len(messages) :
              messages[k] = ToolMsg(executed[i].id, <<"error", "Unknown tool: ", executed[i].name>>)
  /\ (/\ \E i \in 1..Len(batch) : batch[i].name \notin AGENT_TOOLS
      /\ idx > Len(batch)
      /\ approvalCalls = <<>>
      /\ round < maxToolRounds)
     => pc \in {"a_gen", "c_gen"}

\* the deltas of the text events of evs, concatenated in emission order
RECURSIVE TextDeltas(_)
TextDeltas(evs) ==
  IF evs = <<>>
    THEN EmptyText
    ELSE (IF Head(evs).type = "text" THEN Head(evs).delta ELSE EmptyText)
           \o TextDeltas(Tail(evs))

DisclaimerSuffix == <<"\n", "\n">> \o DISCLAIMER

\* text without the disclaimer suffix of the compliance-family stream
WithoutDisclaimer(t) ==
  IF EndsWith(t, DisclaimerSuffix)
    THEN SubSeq(t, 1, Len(t) - Len(DisclaimerSuffix))
    ELSE IF EndsWith(t, DISCLAIMER)
      THEN SubSeq(t, 1, Len(t) - Len(DISCLAIMER))
      ELSE t

Placeholders == {DonePlaceholder, NoTextReceived, NoResponse}

\* C12: when a streamed turn has ended with done, the text of the done
\* event, without the disclaimer suffix and trimmed, is the trimmed
\* concatenation of the text deltas (a placeholder standing for no text).
C12_DeltasMakeDoneText ==
  StreamEnded /\ events[Len(events)].type = "done"
    => LET doneText == Trim(WithoutDisclaimer(events[Len(events)].text))
           cat == Trim(TextDeltas(events))
       IN  \/ doneText = cat
           \/ cat = EmptyText /\ doneText \in Placeholders

\* the failures of schema validation, per kind of request: a body that is
\* not JSON; for a new turn or a routing-only request a missing or empty
\* message or one longer than 8000 characters; for a new turn more than 20
\* history items; for a resume a missing continuation or a missing list of
\* approved ids
ClaimedInvalid(r, b) ==
  \/ ~b.json
  \/ /\ r \in {"hr", "agent", "chat"}
     /\ \/ "message" \notin b.has
        \/ b.message = 0
        \/ b.message > 8000
  \/ /\ r \in {"hr", "agent"}
     /\ "history" \in b.has
     /\ b.history > 20
  \/ /\ r = "continue"
     /\ \/ "continuation" \notin b.has
        \/ "approved_tool_call_ids" \notin b.has

\* the request opened no stream and called neither the classifier, nor the
\* generation capability, nor a tool
NothingRan ==
  /\ streamState = "none"
  /\ events = <<>>
  /\ ~classified
  /\ genCalls = 0
  /\ ExecutedInRequest(reqNo) = <<>>
  /\ chat.stage = "idle"

\* C16 as stated: a request whose body fails schema validation is answered
\* with 400 and nothing ran.
C16_InvalidBodyGets400 ==
  route \in Routes /\ ClaimedInvalid(route, body)
    => http = "400" /\ NothingRan

\* C16: a request whose body fails schema validation is answered with 400,
\* or with 429 when the limiter has no request left for its caller (the
\* limiter is asked before the body is read); in both cases nothing ran.
C16_InvalidBodyRejected ==
  route \in Routes /\ ClaimedInvalid(route, body)
    => /\ http \in {"400", "429"}
       /\ http = "429" =>
            route \in RateLimitedRoutes /\ ~check(store, KeyOf(route), now).allowed
       /\ NothingRan

C16_Witness ==
  /\ route = "agent"
  /\ body.json
  /\ body.message > MAX_MESSAGE
  /\ ClaimedInvalid(route, body)
  /\ http = "400"
  /\ pc = "done"

\* C17: a chooseAgent call with hasDocument false returns
\* general_hr_assistant from the heuristics alone, without calling the
\* fallback router, whatever the message says.
C17_NoDocumentIsGeneral ==
  routing.stage = "done" /\ ~routing.hasDocument
    => /\ routing.result.agent = "general_hr_assistant"
       /\ ~routing.result.llmRouterCalled

C17_Witness ==
  /\ routing.stage = "done"
  /\ ~routing.hasDocument
  /\ routing.message = "Please run a compliance check"
  /\ routing.outcome = "policy_doc_agent"
  /\ routing.result.agent = "general_hr_assistant"

\* a message contains, in any letter case, one of the phrases
HasPhrase(message, phrases) ==
  \E p \in phrases : \E i \in 1..Len(message) :
    i + Len(p) - 1 <= Len(message) /\ toLowerCase(SubSeq(message, i, i + Len(p) - 1)) = p

\* a message is empty or made of white space only
Blank(message) == \A i \in 1..Len(message) : SubSeq(message, i, i) \in {" ", "\n", "\t"}

\* C18: suggestChatAgent returns compliance for a blank message; recruiting
\* for a recruiting phrase without an onboarding phrase; onboarding for an
\* onboarding phrase, with or without a recruiting phrase;
\* learning_development only for a learning phrase with neither of the
\* other two; compliance when no phrase is found; the reason is never empty.
C18_ChatRouting ==
  chat.stage = "done"
    => LET m == chat.message
           agent == chat.result.suggestedAgent
           rec == HasPhrase(m, RECRUITING_PHRASES)
           onb == HasPhrase(m, ONBOARDING_PHRASES)
           lnd == HasPhrase(m, LEARNING_DEVELOPMENT_PHRASES)
       IN  /\ Blank(m) => agent = "compliance"
           /\ rec /\ ~onb => agent = "recruiting"
           /\ onb => agent = "onboarding"
           /\ agent = "learning_development" => lnd /\ ~rec /\ ~onb
           /\ ~rec /\ ~onb /\ ~lnd => agent = "compliance"
           /\ chat.result.reason # ""

C18_Witness ==
  /\ chat.stage = "done"
  /\ chat.message = "Training for our new hire"
  /\ HasPhrase(chat.message, RECRUITING_PHRASES)
  /\ HasPhrase(chat.message, ONBOARDING_PHRASES)
  /\ HasPhrase(chat.message, LEARNING_DEVELOPMENT_PHRASES)
  /\ chat.result.suggestedAgent = "onboarding"

\* the times at which record was called for a key
RecordTimes(key) == SelectSeq(admitted, LAMBDA e : e.key = key)

\* the window the first n recorded requests leave open: a window opens with
\* the first record, and with the first record after the reset time of the
\* window before; it is counted how many records fell into it
RECURSIVE WindowAfter(_, _)
WindowAfter(log, n) ==
  IF n = 0
    THEN [openedAt |-> 0, requests |-> 0]
    ELSE LET w == WindowAfter(log, n - 1)
             t == log[n].at
         IN  IF w.requests = 0 \/ t > w.openedAt + 600000
               THEN [openedAt |-> t, requests |-> 1]
               ELSE [openedAt |-> w.openedAt, requests |-> w.requests + 1]

CurrentWindow(key) == WindowAfter(RecordTimes(key), Len(RecordTimes(key)))

\* a key whose current window took 20 requests and has not reached its
\* reset time
WindowFull(key) ==
  /\ CurrentWindow(key).requests >= 20
  /\ now <= CurrentWindow(key).openedAt + 600000

\* C19: once 20 requests of one key were admitted in one 10-minute window,
\* check refuses that key until the reset time has passed: no window takes
\* a 21st request, and every request made meanwhile gets 429 and is not
\* recorded.
C19_WindowTakesTwenty ==
  /\ [](CurrentWindow(KeyOf("continue")).requests <= 20)
  /\ [](WindowFull(KeyOf("continue")) => ~check(store, KeyOf("continue"), now).allowed)
  /\ [][WindowFull(KeyOf("continue")) /\ reqNo' = reqNo + 1
          => http' = "429" /\ admitted' = admitted]_vars

C19_Witness ==
  /\ CurrentWindow(KeyOf("continue")).requests = 20
  /\ now > CurrentWindow(KeyOf("continue")).openedAt
  /\ WindowFull(KeyOf("continue"))
  /\ reqNo = 21
  /\ http = "429"

\* index of the nearest assistant message before position i (0 if none)
PrecedingAssistant(msgs, i) ==
  IF \E j \in 1..(i - 1) : msgs[j].role = "assistant"
    THEN CHOOSE j \in 1..(i - 1) :
           /\ msgs[j].role = "assistant"
           /\ \A k \in (j + 1)..(i - 1) : msgs[k].role # "assistant"
    ELSE 0

\* every tool message references a call of the nearest preceding assistant
\* message, and every call of every assistant message is answered by exactly
\* one tool message
WellLinked(msgs) ==
  /\ \A i \in 1..Len(msgs) :
       msgs[i].role = "tool"
         => /\ PrecedingAssistant(msgs, i) # 0
            /\ msgs[i].tool_call_id \in CallIds(msgs[PrecedingAssistant(msgs, i)].tool_calls)
  /\ \A j \in 1..Len(msgs) :
       msgs[j].role = "assistant"
         => \A c \in 1..Len(msgs[j].tool_calls) :
              Cardinality({i \in (j + 1)..Len(msgs) :
                             /\ msgs[i].role = "tool"
                             /\ msgs[i].tool_call_id = msgs[j].tool_calls[c].id
                             /\ PrecedingAssistant(msgs, i) = j}) = 1

\* the handler is about to call the generation capability with `messages`
AboutToGenerate ==
  \/ pc = "c_gen"
  \/ pc = "a_gen" /\ RoundsLeft(round)

\* C20: every transcript handed to the generation capability, in a round of
\* a new turn or on resume, has each tool message referencing a call of the
\* nearest preceding assistant message and each tool call answered by
\* exactly one tool message.
C20_TranscriptWellLinked ==
  AboutToGenerate => WellLinked(messages)

\* C21: once the resume loop has run, every call of the decoded last
\* assistant message whose name does not require approval has been executed
\* by that loop and its result is a tool message of the transcript.
C21_ResumeRunsAutoCalls ==
  route = "continue" /\ http = "stream"
    => \A i \in 1..Len(resumeCalls) :
         ~IsGated(resumeCalls[i])
           => /\ \E k \in 1..Len(messages) :
                   messages[k] = ToolMsg(resumeCalls[i].id, ToolResult(resumeCalls[i].name))
              /\ \E e \in 1..Len(executed) :
                   /\ executed[e].req = reqNo
                   /\ executed[e].id = resumeCalls[i].id
                   /\ executed[e].via = "resume"

\* C22: a resumed turn that ended with done ended after a generation
\* response that proposed no tool calls, never right after a tool batch.
C22_ResumeDoneAfterTextOnly ==
  route = "continue" /\ StreamEnded /\ events[Len(events)].type = "done"
    => batch = <<>>

\* C23: in a stream that ended with done, every step event with status
\* active is followed, before the terminal event, by a step event of the
\* same id with status done.
C23_ActiveStepsFinish ==
  StreamEnded /\ events[Len(events)].type = "done"
    => \A i \in 1..Len(events) :
         events[i].type = "step" /\ events[i].status = "active"
           => \E j \in (i + 1)..(Len(events) - 1) :
                /\ events[j].type = "step"
                /\ events[j].id = events[i].id
                /\ events[j].status = "done"

\* C24: within a request no generation call follows a failed one; the hr
\* stream route makes at most two generation calls, the second only after a
\* streaming call that did not fail and left no text after trimming, and
\* the text the second call returns is the done text (before the
\* disclaimer).
C24_NoRetryOneFallback ==
  /\ [][genFailed /\ reqNo' = reqNo => genCalls' = genCalls]_vars
  /\ [](route = "hr" => genCalls <= 2)
  /\ [][route = "hr" /\ reqNo' = reqNo /\ genCalls = 1 /\ genCalls' = 2
          => /\ ~genFailed
             /\ Trim(accumulatedText) = EmptyText
             /\ events'[Len(events')].type = "done"
             /\ fallbackText' # Null /\ fallbackText' # EmptyText
                  => WithoutDisclaimer(events'[Len(events')].text) = fallbackText']_vars

C24_Witness ==
  /\ route = "hr"
  /\ genCalls = 2
  /\ fallbackText = <<"a">>
  /\ StreamEnded
  /\ WithoutDisclaimer(events[Len(events)].text) = <<"a">>

\* ids of the tool messages that follow the last assistant message
TailToolIds(msgs) ==
  LET j == PrecedingAssistant(msgs, Len(msgs) + 1)
  IN  [k \in 1..(Len(msgs) - j) |-> msgs[j + k].tool_call_id]

\* ids of the calls of the current batch that have been run so far: the
\* calls before idx, without the ones the continue route defers
RanSoFar ==
  IdsOf(SelectSeq(SubSeq(batch, 1, idx - 1),
                  LAMBDA tc : route = "agent" \/ ~BatchDefers(tc.name)))

LastN(seq, n) == SubSeq(seq, Len(seq) - n + 1, Len(seq))

InBatch == pc \in {"a_batch", "c_batch"}

\* C25: within one batch the tools run one at a time in the listed order,
\* each result is appended before the next tool starts, the tool messages
\* are in the order of the executed calls, and no generation call is made
\* before the whole batch is resolved.
C25_BatchSequential ==
  /\ [](InBatch =>
         LET ran == SelectSeq(ExecutedInRequest(reqNo), LAMBDA e : e.via = "batch")
         IN  /\ TailToolIds(messages) = RanSoFar
             /\ Len(ran) >= Len(RanSoFar)
             /\ IdsOf(LastN(ran, Len(RanSoFar))) = RanSoFar)
  /\ [][InBatch /\ reqNo' = reqNo
          => /\ Len(executed') <= Len(executed) + 1
             /\ Len(executed') = Len(executed) + 1
                  => /\ executed'[Len(executed')].id = batch[idx].id
                     /\ messages' = Append(messages, messages'[Len(messages')])
                     /\ messages'[Len(messages')].tool_call_id = batch[idx].id
             /\ genCalls' = genCalls]_vars
  /\ [][reqNo' = reqNo /\ genCalls' = genCalls + 1 => ~InBatch]_vars

C25_Witness ==
  /\ pc = "a_batch"
  /\ Len(batch) >= 2
  /\ idx = Len(batch) + 1 \/ idx = Len(batch)
  /\ Len(RanSoFar) >= 1
  /\ TailToolIds(messages) = RanSoFar

\* C26: with a document, chooseAgent is decided by the heuristics exactly
\* when the lower-cased message contains a compliance keyword; it is then
\* policy_doc_agent if a policy phrase is found, otherwise
\* risk_controls_agent if a risk phrase is found, otherwise
\* compliance_agent; without a keyword the fallback router decides, also
\* when a policy or risk phrase is found.
C26_DocumentHeuristics ==
  routing.stage = "done" /\ routing.hasDocument
    => LET m == routing.message
           keyword == HasPhrase(m, COMPLIANCE_KEYWORDS)
           policy == HasPhrase(m, POLICY_DOC_PHRASES)
           risk == HasPhrase(m, RISK_CONTROLS_PHRASES)
       IN  /\ ~routing.result.llmRouterCalled <=> keyword
           /\ keyword /\ policy => routing.result.agent = "policy_doc_agent"
           /\ keyword /\ ~policy /\ risk => routing.result.agent = "risk_controls_agent"
           /\ keyword /\ ~policy /\ ~risk => routing.result.agent = "compliance_agent"
           /\ ~keyword => routing.result = [agent |-> llmRouter(routing.outcome).agent,
                                             reason |-> llmRouter(routing.outcome).reason,
                                             llmRouterCalled |-> TRUE,
                                             history |-> routing.result.history]

C26_Witness ==
  /\ routing.stage = "done"
  /\ routing.hasDocument
  /\ routing.message = "does the handbook say soc2 controls apply?"
  /\ HasPhrase(routing.message, POLICY_DOC_PHRASES)
  /\ HasPhrase(routing.message, RISK_CONTROLS_PHRASES)
  /\ routing.result.agent = "policy_doc_agent"

\* C27: whatever the fallback router's model call comes to, chooseAgent
\* returns one of the four agents; without a credential, on a thrown
\* request, an empty reply, a reply that is not JSON or an agent outside the
\* four it returns general_hr_assistant with reason no-api-key,
\* empty-response or fallback; the router is handed at most the last 10
\* history items.
C27_FallbackRouterTotal ==
  routing.stage = "done"
    => /\ routing.result.agent \in AgentIds
       /\ routing.result.llmRouterCalled
            => /\ routing.outcome \notin AgentIds
                    => /\ routing.result.agent = "general_hr_assistant"
                       /\ routing.result.reason \in {"no-api-key", "empty-response", "fallback"}
               /\ routing.outcome = "no-api-key" => routing.result.reason = "no-api-key"
               /\ routing.outcome = "empty-response" => routing.result.reason = "empty-response"
               /\ routing.outcome \in {"throws", "not-json", "unknown_agent"}
                    => routing.result.reason = "fallback"
               /\ Len(routing.result.history) <= 10
               /\ \A k \in 1..Len(routing.result.history) :
                    routing.result.history[k]
                      = routing.history[Len(routing.history) - Len(routing.result.history) + k]
               /\ Len(routing.result.history) = 10 \/ routing.result.history = routing.history

C27_Witness ==
  /\ routing.stage = "done"
  /\ routing.result.llmRouterCalled
  /\ routing.outcome = "unknown_agent"
  /\ Len(routing.history) = 11
  /\ Len(routing.result.history) = 10
  /\ routing.result.agent = "general_hr_assistant"

\* C28: for every max_results (missing, zero, negative, above 20, not a
\* number) search_candidates returns between 1 and 20 candidates: 5 when
\* max_results is missing or not a positive number, min(max_results, 20)
\* otherwise; total is the number of candidates returned.
C28_SearchCount ==
  search.called
    => LET n == Len(search.candidates)
           positive == search.max_results.type = "number" /\ search.max_results.halves > 0
       IN  /\ n \in 1..20
           /\ search.max_results.type \in {"undefined", "null", "string"} => n = 5
           /\ search.max_results.type = "number" /\ ~positive => n = 5
           /\ positive /\ search.max_results.halves >= 2 * 20 => n = 20
           /\ positive /\ search.max_results.halves < 2 * 20
                => 2 * n = search.max_results.halves
           /\ search.total = 2 * n

\* C29: when handlers of one client and one route family run at the same
\* time, no window of the limiter takes more than 20 recorded requests.
C29_ConcurrentWindowBound ==
  /\ CurrentWindow(KeyOf("agent")).requests <= MAX_REQUESTS
  /\ KeyOf("agent") \in DOMAIN store => store[KeyOf("agent")].count <= MAX_REQUESTS

\* C30: when the stream the chat client read ends with an error event and
\* held no done event, the assistant message the client leaves recorded is
\* the "[Error] ..." message, also when text deltas came before; when the
\* stream ends with a done event, it is the text of that event and not the
\* concatenated deltas.
C30_ClientRecordsTerminal ==
  client.stage = "finished" /\ client.seen # <<>>
    => LET last == client.seen[Len(client.seen)]
           noDone == \A i \in 1..Len(client.seen) : client.seen[i].type # "done"
       IN  /\ last.type = "error" /\ noDone
                => client.content = <<"[Error] ", last.error>>
           /\ last.type = "done" => client.content = last.text

====
